---- MODULE Spec2Model ----
(***************************************************************************)
(* Model of src/worker/ingest.py: a straight-line script that loads every  *)
(* file under /data, splits the documents into nodes, opens the Qdrant     *)
(* collection "kb", embeds and indexes the nodes, and persists the storage *)
(* context.  The script has no try/except, so an exception raised by any   *)
(* of its statements ends the process with a traceback and exit status 1.  *)
(*                                                                         *)
(* The statements call into llama_index and Qdrant.  What the script fixes *)
(* is the order of the calls and what is passed from one to the next; what *)
(* a call does inside (which files the reader cannot read, which ids the   *)
(* nodes get, how the index call groups nodes into embed/upsert batches)   *)
(* is not fixed by the script and is a nondeterministic choice here.       *)
(***************************************************************************)
EXTENDS Integers, Sequences, FiniteSets, TLC

\* Bounds of the model: files under /data, and nodes one document yields.
MaxDocs == 2
MaxChunks == 2

Docs == 1..MaxDocs

\* The stage at which a file makes the library raise ("none": never).
Faults == {"none", "load", "segment", "embed", "write"}

VARIABLES
    fault,          \* the corpus: file -> stage at which it fails
    nChunks,        \* the corpus: file -> number of nodes its text yields
    run,            \* 1: first execution of the script, 2: the re-execution
    pc,             \* position of the script
    documents,      \* ingest.py:6
    nodes,          \* ingest.py:8
    emb,            \* nodes[1..emb] have a vector (inside ingest.py:11)
    pos,            \* nodes[1..pos] have been upserted (inside ingest.py:11)
    store,          \* records of collection "kb"; outlives the process
    storeContacted, \* this run has constructed the store client (ingest.py:10)
    persisted,      \* calls of persist() in this run (ingest.py:12)
    exitStatus,     \* -1 while the process runs, then 0 or 1
    output,         \* what the process has emitted: "" or "traceback"
    crashedAt,      \* stage whose statement raised, "none" otherwise
    failedDoc,      \* element of documents whose processing raised, else 0
    storeAtStart,   \* history: store when this run started
    history         \* history: one summary per finished earlier run

vars == <<fault, nChunks, run, pc, documents, nodes, emb, pos, store,
          storeContacted, persisted, exitStatus, output, crashedAt, failedDoc,
          storeAtStart, history>>

----------------------------------------------------------------------------
\* Helpers

Min(S) == CHOOSE x \in S : \A y \in S : x <= y

\* The files in directory order, as a sequence.
DocSeq == [i \in 1..MaxDocs |-> i]

Loaded(d) == \E i \in 1..Len(documents) : documents[i] = d

\* reader.load_data(): the documents of the files the reader could read.
ReadableDocuments == SelectSeq(DocSeq, LAMBDA d : fault[d] # "load")

\* The nodes of one document, in sequence order.  The script passes no id
\* function: the id is the library's, tagged here by the run that made it.
NodesOfDoc(d, tag) ==
    [i \in 1..nChunks[d] |-> [id |-> <<tag, d, i>>, doc |-> d, seq |-> i]]

\* parser.get_nodes_from_documents(documents): document order is kept.
RECURSIVE GetNodes(_, _)
GetNodes(docs, tag) ==
    IF docs = <<>> THEN <<>>
    ELSE NodesOfDoc(Head(docs), tag) \o GetNodes(Tail(docs), tag)

\* Ids the library may give in this run: those of an earlier run, or new ones.
NodeIdTags == 1..run

Batch(from, to) == {nodes[i] : i \in from..to}

\* Variant of Upsert that overwrites the collection with the batch.
Upsert_Replace(s, recs) == recs

\* The vector store's upsert: insert, or replace the record of the same id.
Upsert(s, recs) ==
    {r \in s : \A n \in recs : n.id # r.id} \cup recs

\* Variant of Crash in which the exception is swallowed at top level: the
\* process stops without a traceback and with exit status 0.
Crash_ExitZero(stage, d) ==
    /\ pc' = "crashed"
    /\ exitStatus' = 0
    /\ output' = ""
    /\ crashedAt' = stage
    /\ failedDoc' = d

\* An exception no statement catches: traceback, exit status 1.
Crash(stage, d) ==
    /\ pc' = "crashed"
    /\ exitStatus' = 1
    /\ output' = "traceback"
    /\ crashedAt' = stage
    /\ failedDoc' = d

----------------------------------------------------------------------------
Init ==
    /\ fault \in [Docs -> Faults]
    /\ nChunks \in [Docs -> 1..MaxChunks]
    /\ run = 1
    /\ pc = "start"
    /\ documents = <<>>
    /\ nodes = <<>>
    /\ emb = 0
    /\ pos = 0
    /\ store = {}
    /\ storeContacted = FALSE
    /\ persisted = 0
    /\ exitStatus = -1
    /\ output = ""
    /\ crashedAt = "none"
    /\ failedDoc = 0
    /\ storeAtStart = {}
    /\ history = <<>>

\* ingest.py:5-6, the call returns: unreadable files are left out.
LoadDataReturns ==
    /\ pc = "start"
    /\ documents' = ReadableDocuments
    /\ pc' = "loaded"
    /\ UNCHANGED <<fault, nChunks, run, nodes, emb, pos, store, storeContacted,
                   persisted, exitStatus, output, crashedAt, failedDoc,
                   storeAtStart, history>>

\* ingest.py:5-6, the call raises on an unreadable file: documents is never
\* assigned, so no document exists that the exception could belong to.
LoadDataRaises ==
    /\ pc = "start"
    /\ \E d \in Docs : fault[d] = "load"
    /\ Crash("load", 0)
    /\ UNCHANGED <<fault, nChunks, run, documents, nodes, emb, pos, store,
                   storeContacted, persisted, storeAtStart, history>>

\* Variant of GetNodesRaises that catches the error at the document boundary:
\* the failing documents are left out and the run goes on.
GetNodesIsolated ==
    /\ pc = "loaded"
    /\ \E tag \in NodeIdTags :
          nodes' = GetNodes(SelectSeq(documents,
                                LAMBDA d : fault[d] # "segment"), tag)
    /\ pc' = "segmented"
    /\ UNCHANGED <<fault, nChunks, run, documents, emb, pos, store,
                   storeContacted, persisted, exitStatus, output, crashedAt,
                   failedDoc, storeAtStart, history>>

\* ingest.py:7-8, the call returns the nodes of every document.
GetNodesReturns ==
    /\ pc = "loaded"
    /\ \A d \in Docs : Loaded(d) => fault[d] # "segment"
    /\ \E tag \in NodeIdTags : nodes' = GetNodes(documents, tag)
    /\ pc' = "segmented"
    /\ UNCHANGED <<fault, nChunks, run, documents, emb, pos, store,
                   storeContacted, persisted, exitStatus, output, crashedAt,
                   failedDoc, storeAtStart, history>>

\* ingest.py:7-8, the call raises on a document it cannot split.
GetNodesRaises ==
    /\ pc = "loaded"
    /\ \E d \in Docs : Loaded(d) /\ fault[d] = "segment"
    /\ Crash("segment", Min({d \in Docs : Loaded(d) /\ fault[d] = "segment"}))
    /\ UNCHANGED <<fault, nChunks, run, documents, nodes, emb, pos, store,
                   storeContacted, persisted, storeAtStart, history>>

\* Variant of OpenStoreReturns that does not wait for the segmentation.
OpenStoreEarly ==
    /\ pc \in {"loaded", "segmented"}
    /\ storeContacted' = TRUE
    /\ pc' = "indexing"
    /\ UNCHANGED <<fault, nChunks, run, documents, nodes, emb, pos, store,
                   persisted, exitStatus, output, crashedAt, failedDoc,
                   storeAtStart, history>>

\* ingest.py:10, the store client is constructed.
OpenStoreReturns ==
    /\ pc = "segmented"
    /\ storeContacted' = TRUE
    /\ pc' = "indexing"
    /\ UNCHANGED <<fault, nChunks, run, documents, nodes, emb, pos, store,
                   persisted, exitStatus, output, crashedAt, failedDoc,
                   storeAtStart, history>>

\* ingest.py:10, the store cannot be reached.
OpenStoreRaises ==
    /\ pc = "segmented"
    /\ storeContacted' = TRUE
    /\ Crash("open", 0)
    /\ UNCHANGED <<fault, nChunks, run, documents, nodes, emb, pos, store,
                   persisted, storeAtStart, history>>

\* ingest.py:11, inside the index call: the next batch of nodes is embedded.
EmbedBatchReturns ==
    /\ pc = "indexing"
    /\ emb = pos
    /\ \E b \in 1..(Len(nodes) - pos) :
          /\ \A n \in Batch(pos + 1, pos + b) : fault[n.doc] # "embed"
          /\ emb' = pos + b
    /\ UNCHANGED <<fault, nChunks, run, pc, documents, nodes, pos, store,
                   storeContacted, persisted, exitStatus, output, crashedAt,
                   failedDoc, storeAtStart, history>>

\* ingest.py:11, inside the index call: the embedder raises on a node.
EmbedBatchRaises ==
    /\ pc = "indexing"
    /\ emb = pos
    /\ \E b \in 1..(Len(nodes) - pos) :
          LET bad == {i \in (pos + 1)..(pos + b) : fault[nodes[i].doc] = "embed"}
          IN  /\ bad # {}
              /\ Crash("embed", nodes[Min(bad)].doc)
    /\ UNCHANGED <<fault, nChunks, run, documents, nodes, emb, pos, store,
                   storeContacted, persisted, storeAtStart, history>>

\* Variant of WriteBatchReturns that upserts every remaining node, embedded
\* or not.
WriteBatchUnembedded ==
    /\ pc = "indexing"
    /\ emb > pos
    /\ store' = Upsert(store, Batch(pos + 1, Len(nodes)))
    /\ pos' = Len(nodes)
    /\ emb' = emb
    /\ UNCHANGED <<fault, nChunks, run, pc, documents, nodes,
                   storeContacted, persisted, exitStatus, output, crashedAt,
                   failedDoc, storeAtStart, history>>

\* ingest.py:11, inside the index call: the embedded batch is upserted.
WriteBatchReturns ==
    /\ pc = "indexing"
    /\ emb > pos
    /\ \A n \in Batch(pos + 1, emb) : fault[n.doc] # "write"
    /\ store' = Upsert(store, Batch(pos + 1, emb))
    /\ pos' = emb
    /\ UNCHANGED <<fault, nChunks, run, pc, documents, nodes, emb,
                   storeContacted, persisted, exitStatus, output, crashedAt,
                   failedDoc, storeAtStart, history>>

\* ingest.py:11, inside the index call: the store rejects a record; the
\* records of the batch before it may or may not have been written.
WriteBatchRaises ==
    /\ pc = "indexing"
    /\ emb > pos
    /\ LET bad == {i \in (pos + 1)..emb : fault[nodes[i].doc] = "write"}
       IN  /\ bad # {}
           /\ \E k \in pos..(Min(bad) - 1) :
                 /\ store' = Upsert(store, Batch(pos + 1, k))
                 /\ pos' = k
           /\ Crash("write", nodes[Min(bad)].doc)
    /\ UNCHANGED <<fault, nChunks, run, documents, nodes, emb,
                   storeContacted, persisted, storeAtStart, history>>

\* Variant of FromNodesReturns that returns between two batches.
FromNodesReturnsEarly ==
    /\ pc = "indexing"
    /\ emb = pos
    /\ pc' = "indexed"
    /\ UNCHANGED <<fault, nChunks, run, documents, nodes, emb, pos, store,
                   storeContacted, persisted, exitStatus, output, crashedAt,
                   failedDoc, storeAtStart, history>>

\* ingest.py:11, the index call returns once every node is upserted.
FromNodesReturns ==
    /\ pc = "indexing"
    /\ emb = pos
    /\ pos = Len(nodes)
    /\ pc' = "indexed"
    /\ UNCHANGED <<fault, nChunks, run, documents, nodes, emb, pos, store,
                   storeContacted, persisted, exitStatus, output, crashedAt,
                   failedDoc, storeAtStart, history>>

\* ingest.py:12, persist returns and the script ends: exit status 0.
PersistReturns ==
    /\ pc = "indexed"
    /\ persisted' = persisted + 1
    /\ pc' = "done"
    /\ exitStatus' = 0
    /\ UNCHANGED <<fault, nChunks, run, documents, nodes, emb, pos, store,
                   storeContacted, output, crashedAt, failedDoc, storeAtStart,
                   history>>

\* ingest.py:12, persist raises.
PersistRaises ==
    /\ pc = "indexed"
    /\ Crash("persist", 0)
    /\ UNCHANGED <<fault, nChunks, run, documents, nodes, emb, pos, store,
                   storeContacted, persisted, storeAtStart, history>>

NodeIds == {nodes[i].id : i \in 1..Len(nodes)}
NodePlaces == {<<nodes[i].doc, nodes[i].seq>> : i \in 1..Len(nodes)}

\* The script is executed again over the same corpus: a new process, the
\* same collection.
Rerun ==
    /\ pc \in {"done", "crashed"}
    /\ run = 1
    /\ history' = Append(history, [ids |-> NodeIds, places |-> NodePlaces,
                                   store |-> store, exit |-> exitStatus])
    /\ run' = run + 1
    /\ pc' = "start"
    /\ documents' = <<>>
    /\ nodes' = <<>>
    /\ emb' = 0
    /\ pos' = 0
    /\ storeContacted' = FALSE
    /\ persisted' = 0
    /\ exitStatus' = -1
    /\ output' = ""
    /\ crashedAt' = "none"
    /\ failedDoc' = 0
    /\ storeAtStart' = store
    /\ UNCHANGED <<fault, nChunks, store>>

Next ==
    \/ LoadDataReturns
    \/ LoadDataRaises
    \/ GetNodesReturns
    \/ GetNodesRaises
    \/ OpenStoreReturns
    \/ OpenStoreRaises
    \/ EmbedBatchReturns
    \/ EmbedBatchRaises
    \/ WriteBatchReturns
    \/ WriteBatchRaises
    \/ FromNodesReturns
    \/ PersistReturns
    \/ PersistRaises
    \/ Rerun

Spec == Init /\ [][Next]_vars

\* The interpreter runs the script's statements one after the other, and a
\* library call returns or raises: a step that can be taken is taken.
FairSpec == Spec /\ WF_vars(Next)
----------------------------------------------------------------------------
\* What the properties below observe

RunEnded == pc \in {"done", "crashed"}

\* Positions in nodes of the nodes of document d.
IdxOf(d) == {i \in 1..Len(nodes) : nodes[i].doc = d}

\* The script is past line 8: nodes holds the chunks of every document.
NodesProduced ==
    \/ pc \in {"segmented", "indexing", "indexed", "done"}
    \/ pc = "crashed" /\ crashedAt \in {"open", "embed", "write", "persist"}

\* Every chunk of document d has a record in the store.
HasChunks(d) ==
    \A i \in 1..nChunks[d] : \E r \in store : r.doc = d /\ r.seq = i

\* The spec's per-document state, read off the script's progress: Segmenting
\* until the document's chunks are produced, Embedding until all their vectors
\* are computed, Writing until all their records are upserted.
Stage(d) ==
    IF failedDoc = d THEN "Failed"
    ELSE IF ~Loaded(d) THEN "Pending"
    ELSE IF ~NodesProduced THEN "Segmenting"
    ELSE IF \E i \in IdxOf(d) : i > emb THEN "Embedding"
    ELSE IF \E i \in IdxOf(d) : i > pos THEN "Writing"
    ELSE "Done"

\* Documents that failed in this run: skipped by the reader, or named by the
\* exception.
DocumentsFailed ==
    {d \in Docs : (pc # "start" /\ fault[d] = "load") \/ failedDoc = d}

\* The corpus has exactly one failing document, f.
OnlyFaulty(f) ==
    fault[f] # "none" /\ \A d \in Docs \ {f} : fault[d] = "none"

\* Records of document d are upserted by the step.
Upserted(d) == \E i \in (pos + 1)..pos' : nodes[i].doc = d

----------------------------------------------------------------------------
StageSteps ==
    {<<"Pending", "Segmenting">>, <<"Segmenting", "Embedding">>,
     <<"Embedding", "Writing">>, <<"Writing", "Done">>,
     <<"Segmenting", "Failed">>, <<"Embedding", "Failed">>,
     <<"Writing", "Failed">>}

C10_CorpusWideStageOrder ==
    /\ (storeContacted \/ pos > 0 \/ store # storeAtStart) =>
          /\ storeContacted
          /\ NodesProduced
          /\ documents = ReadableDocuments
          /\ \A d \in Docs : Loaded(d) => Cardinality(IdxOf(d)) = nChunks[d]
    /\ crashedAt \in {"load", "segment"} =>
          ~storeContacted /\ pos = 0 /\ store = storeAtStart
    /\ persisted <= 1
    /\ persisted = 1 =>
          /\ pc = "done"
          /\ pos = Len(nodes)
          /\ \A i \in 1..Len(nodes) : nodes[i] \in store

\* C10 witness: the second run went through every stage, wrote records next
\* to those of the first run, and persisted once.
C10_Witness ==
    /\ run = 2
    /\ pc = "done"
    /\ persisted = 1
    /\ storeAtStart # {}
    /\ store # storeAtStart

====
